---- MODULE Spec2Model ----
(***************************************************************************)
(* Model of parse_bootimg_for_mkvendor (mkvendor.py): the decoder of an    *)
(* Android boot image held in a seekable file object.  One action per      *)
(* block of the function; the stream is a sparse file (header fields,      *)
(* data chunks, zero fill, a length).  Not modelled: LOG output and the    *)
(* name / cmdline / id strings of the header (they are zero bytes in every *)
(* image considered and no property below reads them).                     *)
(***************************************************************************)
EXTENDS Integers, Sequences, FiniteSets, TLC

VARIABLES stream, closed, pos, pc, err, h, size, turn, result, ret, readAt, calls

vars == <<stream, closed, pos, pc, err, h, size, turn, result, ret, readAt, calls>>

(* ------------------------------ bounds --------------------------------- *)
MaxZeroPages == 1
MaxCut == 1
MaxCalls == 2

(* ----------------------------- constants ------------------------------- *)
HeaderSize == 608
AndroidMagic == <<65, 78, 68, 82, 79, 73, 68, 33>>
DtbMagic == <<208, 13, 254, 237>>
GzMagic == <<31, 139, 8>>

(* ------------------------------ helpers -------------------------------- *)
Min2(a, b) == IF a < b THEN a ELSE b
Max2(a, b) == IF a > b THEN a ELSE b

Take(s, n) == SubSeq(s, 1, Min2(n, Len(s)))
Drop(s, n) == SubSeq(s, n + 1, Len(s))

RECURSIVE Pow256(_)
Pow256(k) == IF k = 0 THEN 1 ELSE 256 * Pow256(k - 1)

(* the ten u32 fields of the header, in the order of the format string *)
Fields(f) ==
  <<f.kernel_size, 32768, f.ramdisk_size, 16777216, f.second_size, 15728640,
    256, f.page_size, f.dt_size, 0>>

(* byte i (0-based) of the 608-byte header: struct '<8s10I16s512s32s' *)
HeaderByte(f, i) ==
  IF i < 8 THEN f.magic[i + 1]
  ELSE IF i < 48 THEN (Fields(f)[((i - 8) \div 4) + 1] \div Pow256((i - 8) % 4)) % 256
  ELSE 0

(* byte i (0-based) of the file *)
Byte(s, i) ==
  IF i < HeaderSize THEN HeaderByte(s.hdr, i)
  ELSE IF \E c \in s.chunks : c.off <= i /\ i < c.off + Len(c.bytes)
       THEN LET c == CHOOSE c \in s.chunks : c.off <= i /\ i < c.off + Len(c.bytes)
            IN c.bytes[i - c.off + 1]
       ELSE 0

(* file.read(n) at position p: at most n bytes, fewer at end of file *)
Read(s, p, n) ==
  LET m == Max2(0, Min2(n, s.len - p))
  IN [j \in 1..m |-> Byte(s, p + j - 1)]

(* file.read() at position p: everything up to end of file *)
ReadAll(s, p) == Read(s, p, Max2(0, s.len - p))

(* little-endian u32 at 0-based offset off of a byte buffer *)
LE32(buf, off) ==
  buf[off + 1] + 256 * buf[off + 2] + 65536 * buf[off + 3] + 16777216 * buf[off + 4]

(* struct.unpack('<8s10I16s512s32s', buf), the fields the function uses *)
Unpack(buf) ==
  [magic        |-> SubSeq(buf, 1, 8),
   kernel_size  |-> LE32(buf, 8),
   kernel_addr  |-> LE32(buf, 12),
   ramdisk_size |-> LE32(buf, 16),
   ramdisk_addr |-> LE32(buf, 20),
   second_size  |-> LE32(buf, 24),
   second_addr  |-> LE32(buf, 28),
   tags_addr    |-> LE32(buf, 32),
   page_size    |-> LE32(buf, 36),
   dt_size      |-> LE32(buf, 40),
   os_version   |-> LE32(buf, 44)]

NoHeader ==
  [magic |-> <<>>, kernel_size |-> 0, kernel_addr |-> 0, ramdisk_size |-> 0,
   ramdisk_addr |-> 0, second_size |-> 0, second_addr |-> 0, tags_addr |-> 0,
   page_size |-> 0, dt_size |-> 0, os_version |-> 0]

(* struct.pack('%ds' % n, b''): n zero bytes *)
Zeros(n) == [j \in 1..n |-> 0]

(* the assert compiled away *)
MagicUnchecked(m) == TRUE

(* the assert of line 72 *)
MagicOK(m) == m = AndroidMagic

(* bitwise operations on Python's unbounded two's-complement integers *)
Not(x) == -x - 1

RECURSIVE BitAnd(_, _)
BitAnd(a, b) ==
  IF a = 0 \/ b = 0 THEN 0
  ELSE IF a = -1 THEN b
  ELSE IF b = -1 THEN a
  ELSE (a % 2) * (b % 2) + 2 * BitAnd(a \div 2, b \div 2)

(* padding = lambda x: (~x + 1) & (size - 1) *)
padding(x, sz) == BitAnd(Not(x) + 1, sz - 1)

(* a sniff of the two-byte gzip identification only *)
gznameTwoBytes(x) == IF Take(x, 2) = <<31, 139>> THEN ".gz" ELSE ""

(* gzname = lambda x: x == struct.pack('3B', 0x1f, 0x8b, 0x08) and '.gz' or '' *)
gzname(x) == IF x = GzMagic THEN ".gz" ELSE ""

(* bytes.find(pat): 0-based offset of the first occurrence, -1 when absent *)
MatchAt(buf, pat, i) ==
  /\ i >= 0
  /\ i + Len(pat) <= Len(buf)
  /\ \A k \in 1..Len(pat) : buf[i + k] = pat[k]

(* bytes.rfind(pat): the last occurrence *)
FindLast(buf, pat) ==
  LET hits == {i \in 0..(Len(buf) - Len(pat)) : MatchAt(buf, pat, i)}
  IN IF hits = {} THEN -1 ELSE CHOOSE i \in hits : \A j \in hits : i >= j

Find(buf, pat) ==
  LET hits == {i \in 0..(Len(buf) - Len(pat)) : MatchAt(buf, pat, i)}
  IN IF hits = {} THEN -1 ELSE CHOOSE i \in hits : \A j \in hits : i <= j

(* the Namespace built at lines 49-58 *)
NewResult ==
  [metadata |-> [x \in {} |-> 0], kernel |-> <<>>, ramdisk |-> <<>>,
   second |-> <<>>, dtimg |-> <<>>, kerneldt |-> <<>>, unknown |-> <<>>,
   image_format |-> [x \in {} |-> ""]]

NoReturn == [some |-> FALSE, val |-> NewResult]

NotRead == [kernel |-> -1, ramdisk |-> -1, second |-> -1, dtimg |-> -1, unknown |-> -1]

(* ------------------------------ inputs --------------------------------- *)
PageSizes == {0, 8, 608, 1024}
Magics == {AndroidMagic, <<66, 65, 68, 77, 65, 71, 73, 67>>}
KernelImages ==
  { <<>>,
    <<1, 2>>,
    <<31, 139, 8, 0>>,
    <<7, 208, 13, 254, 237, 9>>,
    <<208, 13, 254, 237, 5>>,
    <<208, 13, 254, 237, 208, 13, 254, 237, 6>>,
    <<31, 139, 8, 208, 13, 254, 237, 208, 13, 254, 237>> }
RamdiskImages == { <<>>, <<31, 139, 8, 0, 5>>, <<31, 139>>, <<48, 55, 48, 55>> }
SecondImages == { <<>>, <<31, 139, 8>>, <<127>> }
DtImages == { <<>>, <<208, 13, 254, 237, 1>> }

(* round x up to a multiple of the page size, as an image builder does *)
Align(x, P) == IF P = 0 THEN x ELSE ((x + P - 1) \div P) * P

(* an image file: header, n zero pages, then the sections page-aligned;   *)
(* tail = 0: the last section is padded to a page; tail = c > 0: the file *)
(* ends c - 1 bytes before the end of the last section's data             *)
Image(magic, P, n, k, r, s, d, tail) ==
  LET kOff == Align(HeaderSize, P) + n * P
      rOff == kOff + Align(Len(k), P)
      sOff == rOff + Align(Len(r), P)
      dOff == sOff + Align(Len(s), P)
      padded == dOff + Align(Len(d), P)
      dataEnd == IF Len(d) > 0 THEN dOff + Len(d)
                 ELSE IF Len(s) > 0 THEN sOff + Len(s)
                 ELSE IF Len(r) > 0 THEN rOff + Len(r)
                 ELSE IF Len(k) > 0 THEN kOff + Len(k)
                 ELSE HeaderSize
  IN [len |-> IF tail = 0 THEN padded ELSE dataEnd - (tail - 1),
      hdr |-> [magic |-> magic, kernel_size |-> Len(k), ramdisk_size |-> Len(r),
               second_size |-> Len(s), page_size |-> P, dt_size |-> Len(d)],
      chunks |-> { [off |-> kOff, bytes |-> k], [off |-> rOff, bytes |-> r],
                   [off |-> sOff, bytes |-> s], [off |-> dOff, bytes |-> d] }]

Images ==
  { Image(m, P, n, k, r, s, d, t) :
      m \in Magics, P \in PageSizes, n \in 0..MaxZeroPages, k \in KernelImages,
      r \in RamdiskImages, s \in SecondImages, d \in DtImages, t \in 0..(MaxCut + 1) }

(* ------------------------------- state --------------------------------- *)
Init ==
  /\ stream \in Images
  /\ closed = FALSE
  /\ pos = 0
  /\ pc = "start"
  /\ err = ""
  /\ h = NoHeader
  /\ size = 0
  /\ turn = 0
  /\ result = NewResult
  /\ ret = NoReturn
  /\ readAt = NotRead
  /\ calls = 1

(* an exception leaves the function: locals are dropped, nothing returned *)
Raise(e) ==
  /\ pc' = "failed"
  /\ err' = e
  /\ result' = NewResult
  /\ ret' = NoReturn

(* lines 49-72: build the Namespace, seek(0), read and unpack the header, *)
(* skip the rest of the header page, check the magic                      *)
Header ==
  /\ pc = "start"
  /\ IF closed
     THEN Raise("ValueError") /\ UNCHANGED <<pos, h>>
     ELSE LET buf == Read(stream, 0, HeaderSize)
          IN IF Len(buf) # HeaderSize
             THEN Raise("struct.error") /\ pos' = Len(buf) /\ UNCHANGED h
             ELSE LET u == Unpack(buf)
                  IN /\ h' = u
                     /\ pos' = HeaderSize + (u.page_size - HeaderSize)
                     /\ IF MagicOK(u.magic)
                        THEN /\ pc' = "probe"
                             /\ result' = NewResult
                             /\ UNCHANGED <<err, ret>>
                        ELSE Raise("AssertionError")
  /\ UNCHANGED <<stream, closed, size, turn, readAt, calls>>

(* lines 98-100: one turn of the probe loop whose page is all zero:       *)
(* continue; turn is the parity of the turns taken so far                *)
ProbeZero ==
  /\ pc = "probe"
  /\ LET page == Read(stream, pos, h.page_size)
     IN /\ page = Zeros(h.page_size)
        /\ pos' = pos + Len(page)
  /\ turn' = 1 - turn
  /\ UNCHANGED <<stream, closed, pc, err, h, size, result, ret, readAt, calls>>

(* lines 98-121: the turn of the probe loop that leaves it (seek back one *)
(* page, size = tell()), then the metadata                                *)
ProbeEnd ==
  /\ pc = "probe"
  /\ LET page == Read(stream, pos, h.page_size)
         np == pos + Len(page) - h.page_size
     IN /\ page # Zeros(h.page_size)
        /\ IF np < 0
           THEN Raise("OSError") /\ UNCHANGED <<pos, size>>
           ELSE /\ pos' = np
                /\ size' = np
                /\ result' = [result EXCEPT !.metadata =
                     [kernel_addr |-> h.kernel_addr, ramdisk_addr |-> h.ramdisk_addr,
                      second_addr |-> h.second_addr, tags_addr |-> h.tags_addr,
                      page_size |-> h.page_size, padding_size |-> np,
                      os_version |-> h.os_version]]
                /\ pc' = "kernel"
                /\ UNCHANGED <<err, ret>>
  /\ turn' = 1 - turn
  /\ UNCHANGED <<stream, closed, h, readAt, calls>>

(* lines 125-135: kernel, split at the device-tree magic, compression tag *)
Kernel ==
  /\ pc = "kernel"
  /\ LET kernel == Read(stream, pos, h.kernel_size)
         p == Find(kernel, DtbMagic)
         np == pos + Len(kernel) + padding(h.kernel_size, size)
     IN IF np < 0
        THEN Raise("OSError") /\ UNCHANGED pos
        ELSE /\ result' = [result EXCEPT
                  !.kernel = IF p > 0 THEN SubSeq(kernel, 1, p) ELSE kernel,
                  !.kerneldt = IF p > 0 THEN Drop(kernel, p) ELSE @,
                  !.image_format = ("kernel" :> gzname(Take(kernel, 3))) @@ @]
             /\ pos' = np
             /\ pc' = "ramdisk"
             /\ UNCHANGED <<err, ret>>
  /\ readAt' = [readAt EXCEPT !.kernel = pos]
  /\ UNCHANGED <<stream, closed, h, size, turn, calls>>

(* lines 137-141 *)
Ramdisk ==
  /\ pc = "ramdisk"
  /\ LET ramdisk == Read(stream, pos, h.ramdisk_size)
         np == pos + Len(ramdisk) + padding(h.ramdisk_size, size)
     IN IF np < 0
        THEN Raise("OSError") /\ UNCHANGED pos
        ELSE /\ result' = [result EXCEPT
                  !.ramdisk = ramdisk,
                  !.image_format = ("ramdisk" :> gzname(Take(ramdisk, 3))) @@ @]
             /\ pos' = np
             /\ pc' = "second"
             /\ UNCHANGED <<err, ret>>
  /\ readAt' = [readAt EXCEPT !.ramdisk = pos]
  /\ UNCHANGED <<stream, closed, h, size, turn, calls>>

(* a copy of the ramdisk block left unguarded: reads ramdisk_size bytes *)
SecondCopied ==
  /\ pc = "second"
  /\ LET second == Read(stream, pos, h.ramdisk_size)
         np == pos + Len(second) + padding(h.ramdisk_size, size)
     IN IF np < 0
        THEN Raise("OSError") /\ UNCHANGED pos
        ELSE /\ result' = [result EXCEPT
                  !.second = second,
                  !.image_format = ("second" :> gzname(Take(second, 3))) @@ @]
             /\ pos' = np
             /\ pc' = "dt"
             /\ UNCHANGED <<err, ret>>
  /\ readAt' = [readAt EXCEPT !.second = pos]
  /\ UNCHANGED <<stream, closed, h, size, turn, calls>>

(* lines 143-148 *)
Second ==
  /\ pc = "second"
  /\ IF h.second_size # 0
     THEN LET second == Read(stream, pos, h.second_size)
              np == pos + Len(second) + padding(h.second_size, size)
          IN /\ IF np < 0
                THEN Raise("OSError") /\ UNCHANGED pos
                ELSE /\ result' = [result EXCEPT
                          !.second = second,
                          !.image_format = ("second" :> gzname(Take(second, 3))) @@ @]
                     /\ pos' = np
                     /\ pc' = "dt"
                     /\ UNCHANGED <<err, ret>>
             /\ readAt' = [readAt EXCEPT !.second = pos]
     ELSE /\ pc' = "dt"
          /\ UNCHANGED <<pos, err, result, ret, readAt>>
  /\ UNCHANGED <<stream, closed, h, size, turn, calls>>

(* lines 150-154 *)
Dt ==
  /\ pc = "dt"
  /\ IF h.dt_size # 0
     THEN LET dtimg == Read(stream, pos, h.dt_size)
              np == pos + Len(dtimg) + padding(h.dt_size, size)
          IN /\ IF np < 0
                THEN Raise("OSError") /\ UNCHANGED pos
                ELSE /\ result' = [result EXCEPT !.dtimg = dtimg]
                     /\ pos' = np
                     /\ pc' = "unknown"
                     /\ UNCHANGED <<err, ret>>
             /\ readAt' = [readAt EXCEPT !.dtimg = pos]
     ELSE /\ pc' = "unknown"
          /\ UNCHANGED <<pos, err, result, ret, readAt>>
  /\ UNCHANGED <<stream, closed, h, size, turn, calls>>

(* lines 156-163: the rest of the file, close the file, return *)
Unknown ==
  /\ pc = "unknown"
  /\ LET unknown == ReadAll(stream, pos)
         res == IF Len(unknown) > 0 THEN [result EXCEPT !.unknown = unknown] ELSE result
     IN /\ result' = res
        /\ ret' = [some |-> TRUE, val |-> res]
        /\ pos' = pos + Len(unknown)
  /\ readAt' = [readAt EXCEPT !.unknown = pos]
  /\ closed' = TRUE
  /\ pc' = "done"
  /\ UNCHANGED <<stream, err, h, size, turn, calls>>

(* lines 166-167, 234: a caller decodes the same file object again *)
Recall ==
  /\ pc \in {"done", "failed"}
  /\ calls < MaxCalls
  /\ calls' = calls + 1
  /\ pc' = "start"
  /\ err' = ""
  /\ h' = NoHeader
  /\ size' = 0
  /\ turn' = 0
  /\ result' = NewResult
  /\ ret' = NoReturn
  /\ readAt' = NotRead
  /\ UNCHANGED <<stream, closed, pos>>

Next ==
  \/ Header
  \/ ProbeZero
  \/ ProbeEnd
  \/ Kernel
  \/ Ramdisk
  \/ Second
  \/ Dt
  \/ Unknown
  \/ Recall

Spec == Init /\ [][Next]_vars

(* the scheduler runs the function's next statement whenever there is one *)
FairSpec == Spec /\ WF_vars(Next)

(* ---------------------------- properties ------------------------------- *)
Returned == ret.some
PastKernel == pc \in {"ramdisk", "second", "dt", "unknown", "done"}

(* the section buffers as the function read them from the file *)
KernelRead == Read(stream, readAt.kernel, h.kernel_size)
RamdiskRead == Read(stream, readAt.ramdisk, h.ramdisk_size)
SecondRead == IF readAt.second >= 0 THEN Read(stream, readAt.second, h.second_size) ELSE <<>>

StartsWithGz(buf) == Len(buf) >= 3 /\ buf[1] = 31 /\ buf[2] = 139 /\ buf[3] = 8
DtbAt(buf, p) == MatchAt(buf, DtbMagic, p)
DtbOffsets(buf) == {p \in 0..(Len(buf) - 4) : DtbAt(buf, p)}

IsPowerOfTwo(n) == n > 0 /\ BitAnd(n, n - 1) = 0
RoundUp(n, P) == IF P > 0 THEN ((n + P - 1) \div P) * P ELSE n

(* C1: a read that ends early makes the decode fail; no returned result   *)
(* holds a section shorter than the size its header declares (stated for  *)
(* the page sizes the format allows).                                     *)
C1_ShortReadFails ==
  /\ stream.len < HeaderSize => pc \in {"start", "failed"}
  /\ (Returned /\ IsPowerOfTwo(h.page_size)) =>
       /\ Len(ret.val.kernel) + Len(ret.val.kerneldt) = h.kernel_size
       /\ Len(ret.val.ramdisk) = h.ramdisk_size
       /\ Len(ret.val.second) = h.second_size
       /\ Len(ret.val.dtimg) = h.dt_size

(* C2: every call, once entered, eventually returns or fails. *)
C2_Terminates == (pc = "start") ~> (pc \in {"done", "failed"})

(* C3: with a valid magic and a page_size that is zero or not a power of  *)
(* two, the decode never gets to the section reads and returns nothing.   *)
C3_InvalidPageSizeFails ==
  (/\ stream.len >= HeaderSize
   /\ stream.hdr.magic = AndroidMagic
   /\ ~IsPowerOfTwo(stream.hdr.page_size))
  => (~PastKernel /\ pc # "kernel" /\ ~Returned /\ readAt = NotRead)

(* C4: a file of at least 608 bytes whose magic is not "ANDROID!" makes   *)
(* the decode fail on the assertion, with no result, not even a partial   *)
(* one, and with no section read done.                                    *)
C4_BadMagicFailsEarly ==
  (stream.len >= HeaderSize /\ stream.hdr.magic # AndroidMagic)
  => /\ pc \in {"start", "failed"}
     /\ pc = "failed" => err = "AssertionError"
     /\ ~Returned
     /\ result = NewResult
     /\ readAt = NotRead
     /\ ~closed

C4_Witness ==
  /\ stream.len >= HeaderSize
  /\ stream.hdr.magic # AndroidMagic
  /\ pc = "failed"
  /\ err = "AssertionError"

(* C5: on a successful decode each section after the kernel is read from  *)
(* the start of the one before it plus that one's declared size rounded   *)
(* up to a multiple of page_size.                                         *)
C5_SectionsPageAligned ==
  (Returned /\ IsPowerOfTwo(h.page_size)) =>
    LET P == h.page_size
        rAt == readAt.kernel + RoundUp(h.kernel_size, P)
        sAt == rAt + RoundUp(h.ramdisk_size, P)
        dAt == sAt + RoundUp(h.second_size, P)
    IN /\ readAt.ramdisk = rAt
       /\ h.second_size # 0 => readAt.second = sAt
       /\ h.dt_size # 0 => readAt.dtimg = dAt

(* C6 as stated: if the device-tree magic occurs at some offset > 0 of    *)
(* the kernel section, the kernel is cut at such an offset and kerneldt   *)
(* is the rest; if it does not occur, kerneldt is empty.                  *)
C6_SplitAtAnyLaterMagic ==
  PastKernel =>
    LET buf == KernelRead
        later == DtbOffsets(buf) \ {0}
    IN /\ later # {} =>
            \E p \in later : /\ Len(result.kernel) = p
                             /\ result.kerneldt = Drop(buf, p)
       /\ DtbOffsets(buf) = {} =>
            (result.kerneldt = <<>> /\ result.kernel = buf)

(* C6 amended: the kernel section is cut at the FIRST occurrence of the   *)
(* device-tree magic when that occurrence is at an offset > 0; when the   *)
(* magic is absent or its first occurrence is at offset 0, kerneldt is    *)
(* empty and kernel is the whole section.                                 *)
C6_SplitAtFirstMagic ==
  PastKernel =>
    LET buf == KernelRead
        offs == DtbOffsets(buf)
    IN /\ \A p \in offs :
            (p > 0 /\ \A q \in offs : p <= q) =>
               /\ Len(result.kernel) = p
               /\ result.kernel = Take(buf, p)
               /\ result.kerneldt = Drop(buf, p)
       /\ (offs = {} \/ 0 \in offs) =>
            (result.kerneldt = <<>> /\ result.kernel = buf)

C6_Witness ==
  /\ pc = "done"
  /\ Len(result.kernel) > 0
  /\ Len(result.kerneldt) > 4
  /\ Cardinality(DtbOffsets(KernelRead)) > 1

(* C7: the decode leaves the caller's stream open. *)
C7_StreamLeftOpen == Returned => ~closed

C9_NoSecondNoMove ==
  (h.second_size = 0 /\ pc \in {"dt", "unknown", "done"}) =>
    LET ramdiskEnd == readAt.ramdisk + Len(result.ramdisk) + padding(h.ramdisk_size, size)
    IN /\ result.second = <<>>
       /\ readAt.second = -1
       /\ pc = "dt" => pos = ramdiskEnd
       /\ (pc # "dt" /\ h.dt_size # 0) => readAt.dtimg = ramdiskEnd
       /\ (pc = "done" /\ h.dt_size = 0) => readAt.unknown = ramdiskEnd

C9_Witness ==
  /\ pc = "done"
  /\ h.second_size = 0
  /\ h.ramdisk_size # 0
  /\ h.dt_size # 0
  /\ Len(result.dtimg) = h.dt_size

(* C10: when the probe is over the position is the one it started from,   *)
(* page_size, and the kernel is read from there.                          *)
C10_ProbeRewinds ==
  /\ (pc = "kernel" /\ IsPowerOfTwo(h.page_size)) => pos = h.page_size
  /\ (PastKernel /\ IsPowerOfTwo(h.page_size)) => readAt.kernel = h.page_size
====
